---- MODULE Spec2Model ----
(***************************************************************************)
(* The Porter stemmer of package porter (src/stemmer.go).                  *)
(*                                                                         *)
(* A word is a sequence of bytes, each byte written as a one-character     *)
(* string.  Go indexes a slice from 0, a TLA+ sequence from 1: at(b, i) is *)
(* the Go expression b[i].  The stemmer state z is the struct {b, j, k};   *)
(* the model adds four logs to it, cleared at the start of every step:     *)
(*    idx  the indices of every index expression z.b[i] evaluated          *)
(*    sl   the low bounds of every slice expression z.b[n:] evaluated      *)
(*    wr   the indices setto was asked to write (j+1 .. j+len(s))          *)
(*    ks   every value assigned to z.k                                     *)
(* An index outside the buffer makes the Go runtime panic; the model goes  *)
(* to pc = "panic" when a step logs such an index.                         *)
(***************************************************************************)
EXTENDS Integers, Sequences, FiniteSets, TLC

VARIABLES
    z,       \* stemmer instance -> its struct, with the logs of the last step
    pc,      \* call -> where the call is
    api,     \* call -> "Stem" or "StemBytes"
    word,    \* call -> the argument of the call
    out,     \* call -> the returned string / slice
    err,     \* call -> the returned error
    round,   \* call -> 1 for a first call, 2 for the call on its own result
    prev,    \* call -> argument and result of the round-1 call
    mrun     \* one call of z.m(), loop iteration by loop iteration

vars == <<z, pc, api, word, out, err, round, prev, mrun>>

----------------------------------------------------------------------------
(* Bounds of the model.                                                    *)

\* longest word of the exhaustive input set
MaxLen == 4
\* longest stem of the stem ++ suffix ++ ending input set
MaxStem == 4

----------------------------------------------------------------------------
(* The suffix tables, src/stemmer.go:54-119.                               *)

SuffixTables ==
    [ BLANK   |-> << >>,
      ABLE    |-> <<"a","b","l","e">>,
      AL      |-> <<"a","l">>,
      ALISM   |-> <<"a","l","i","s","m">>,
      ALITI   |-> <<"a","l","i","t","i">>,
      ALIZE   |-> <<"a","l","i","z","e">>,
      ALLI    |-> <<"a","l","l","i">>,
      ANCE    |-> <<"a","n","c","e">>,
      ANCI    |-> <<"a","n","c","i">>,
      ANT     |-> <<"a","n","t">>,
      AT      |-> <<"a","t">>,
      ATE     |-> <<"a","t","e">>,
      ATION   |-> <<"a","t","i","o","n">>,
      ATIONAL |-> <<"a","t","i","o","n","a","l">>,
      ATIVE   |-> <<"a","t","i","v","e">>,
      ATOR    |-> <<"a","t","o","r">>,
      BILITI  |-> <<"b","i","l","i","t","i">>,
      BL      |-> <<"b","l">>,
      BLE     |-> <<"b","l","e">>,
      BLI     |-> <<"b","l","i">>,
      E       |-> <<"e">>,
      ED      |-> <<"e","d">>,
      EED     |-> <<"e","e","d">>,
      ELI     |-> <<"e","l","i">>,
      EMENT   |-> <<"e","m","e","n","t">>,
      ENCE    |-> <<"e","n","c","e">>,
      ENCI    |-> <<"e","n","c","i">>,
      ENT     |-> <<"e","n","t">>,
      ENTLI   |-> <<"e","n","t","l","i">>,
      ER      |-> <<"e","r">>,
      FUL     |-> <<"f","u","l">>,
      FULNESS |-> <<"f","u","l","n","e","s","s">>,
      I       |-> <<"i">>,
      IBLE    |-> <<"i","b","l","e">>,
      IC      |-> <<"i","c">>,
      ICAL    |-> <<"i","c","a","l">>,
      ICATE   |-> <<"i","c","a","t","e">>,
      ICITI   |-> <<"i","c","i","t","i">>,
      IES     |-> <<"i","e","s">>,
      ING     |-> <<"i","n","g">>,
      ION     |-> <<"i","o","n">>,
      ISM     |-> <<"i","s","m">>,
      ITI     |-> <<"i","t","i">>,
      IVE     |-> <<"i","v","e">>,
      IVENESS |-> <<"i","v","e","n","e","s","s">>,
      IVITI   |-> <<"i","v","i","t","i">>,
      IZ      |-> <<"i","z">>,
      IZATION |-> <<"i","z","a","t","i","o","n">>,
      IZE     |-> <<"i","z","e">>,
      IZER    |-> <<"i","z","e","r">>,
      LOG     |-> <<"l","o","g">>,
      LOGI    |-> <<"l","o","g","i">>,
      MENT    |-> <<"m","e","n","t">>,
      NESS    |-> <<"n","e","s","s">>,
      OU      |-> <<"o","u">>,
      OUS     |-> <<"o","u","s">>,
      OUSLI   |-> <<"o","u","s","l","i">>,
      OUSNESS |-> <<"o","u","s","n","e","s","s">>,
      SSES    |-> <<"s","s","e","s">>,
      TION    |-> <<"t","i","o","n">>,
      TIONAL  |-> <<"t","i","o","n","a","l">>,
      Y       |-> <<"y">> ]

\* The package-level variables that hold the tables.  No statement of the
\* package assigns to one of them or to an element of one (they are only
\* passed to ends, setto and r, which read them), so they are constants here.
__BLANK  == SuffixTables.BLANK
_ABLE    == SuffixTables.ABLE
_AL      == SuffixTables.AL
_ALISM   == SuffixTables.ALISM
_ALITI   == SuffixTables.ALITI
_ALIZE   == SuffixTables.ALIZE
_ALLI    == SuffixTables.ALLI
_ANCE    == SuffixTables.ANCE
_ANCI    == SuffixTables.ANCI
_ANT     == SuffixTables.ANT
_AT      == SuffixTables.AT
_ATE     == SuffixTables.ATE
_ATION   == SuffixTables.ATION
_ATIONAL == SuffixTables.ATIONAL
_ATIVE   == SuffixTables.ATIVE
_ATOR    == SuffixTables.ATOR
_BILITI  == SuffixTables.BILITI
_BL      == SuffixTables.BL
_BLE     == SuffixTables.BLE
_BLI     == SuffixTables.BLI
_E       == SuffixTables.E
_ED      == SuffixTables.ED
_EED     == SuffixTables.EED
_ELI     == SuffixTables.ELI
_EMENT   == SuffixTables.EMENT
_ENCE    == SuffixTables.ENCE
_ENCI    == SuffixTables.ENCI
_ENT     == SuffixTables.ENT
_ENTLI   == SuffixTables.ENTLI
_ER      == SuffixTables.ER
_FUL     == SuffixTables.FUL
_FULNESS == SuffixTables.FULNESS
_I       == SuffixTables.I
_IBLE    == SuffixTables.IBLE
_IC      == SuffixTables.IC
_ICAL    == SuffixTables.ICAL
_ICATE   == SuffixTables.ICATE
_ICITI   == SuffixTables.ICITI
_IES     == SuffixTables.IES
_ING     == SuffixTables.ING
_ION     == SuffixTables.ION
_ISM     == SuffixTables.ISM
_ITI     == SuffixTables.ITI
_IVE     == SuffixTables.IVE
_IVENESS == SuffixTables.IVENESS
_IVITI   == SuffixTables.IVITI
_IZ      == SuffixTables.IZ
_IZATION == SuffixTables.IZATION
_IZE     == SuffixTables.IZE
_IZER    == SuffixTables.IZER
_LOG     == SuffixTables.LOG
_LOGI    == SuffixTables.LOGI
_MENT    == SuffixTables.MENT
_NESS    == SuffixTables.NESS
_OU      == SuffixTables.OU
_OUS     == SuffixTables.OUS
_OUSLI   == SuffixTables.OUSLI
_OUSNESS == SuffixTables.OUSNESS
_SSES    == SuffixTables.SSES
_TION    == SuffixTables.TION
_TIONAL  == SuffixTables.TIONAL
_Y       == SuffixTables.Y

----------------------------------------------------------------------------
(* Buffer access and the logs.                                             *)

\* what an out-of-range read yields in the model (the code panics there)
NUL == "?"

\* the Go expression b[i]
at(b, i) == IF i >= 0 /\ i < Len(b) THEN b[i + 1] ELSE NUL

\* the Go expression b[:n]
upto(b, n) == SubSeq(b, 1, IF n < Len(b) THEN n ELSE Len(b))

\* bytes.HasSuffix(x, s)
HasSuffix(x, s) ==
    /\ Len(s) <= Len(x)
    /\ SubSeq(x, Len(x) - Len(s) + 1, Len(x)) = s

\* the step evaluates the index expression z.b[i]
rd(zz, i) == [zz EXCEPT !.idx = @ \cup {i}]

\* the step calls consonant(pos) for every pos of S; consonant indexes
\* z.b[pos] unless len(z.b) <= pos
see(zz, S) == [zz EXCEPT !.idx = @ \cup {p \in S : p < Len(zz.b)}]

\* the step assigns v to z.k
setk(zz, v) == [zz EXCEPT !.k = v, !.ks = @ \cup {v}]

\* the logs are per step
Fresh(zz) == [zz EXCEPT !.idx = {}, !.sl = {}, !.wr = {}, !.ks = {}]

\* the step indexed or sliced z.b outside the buffer; ends slices
\* z.b[:z.k+1] with the current k, so a k assigned past the last byte faults
Faulted(zz) ==
    \/ \E i \in zz.idx : i < 0 \/ i >= Len(zz.b)
    \/ \E n \in zz.sl : n < 0 \/ n > Len(zz.b)
    \/ \E v \in zz.ks : v + 1 > Len(zz.b)

----------------------------------------------------------------------------
(* Classification and measure.                                             *)

\* consonant with 'y' classified like the letter before it
RECURSIVE consonantYSame(_, _)
consonantYSame(b, pos) ==
    IF Len(b) <= pos THEN FALSE
    ELSE IF at(b, pos) \in {"a", "e", "i", "o", "u"} THEN FALSE
    ELSE IF at(b, pos) = "y"
         THEN (IF pos = 0 THEN TRUE ELSE consonantYSame(b, pos - 1))
    ELSE TRUE

\* consonant with 'i' missing from the vowels of the switch
RECURSIVE consonantNoI(_, _)
consonantNoI(b, pos) ==
    IF Len(b) <= pos THEN FALSE
    ELSE IF at(b, pos) \in {"a", "e", "o", "u"} THEN FALSE
    ELSE IF at(b, pos) = "y"
         THEN (IF pos = 0 THEN TRUE ELSE ~consonantNoI(b, pos - 1))
    ELSE TRUE

RECURSIVE consonant(_, _)

vowel(b, pos) == ~consonant(b, pos)

consonant(b, pos) ==
    IF Len(b) <= pos THEN FALSE
    ELSE IF at(b, pos) \in {"a", "e", "i", "o", "u"} THEN FALSE
    ELSE IF at(b, pos) = "y" THEN (IF pos = 0 THEN TRUE ELSE vowel(b, pos - 1))
    ELSE TRUE

\* The three loops of m(): ph 0 is the first loop (skip the leading
\* consonants), ph 1 the vowel loop, ph 2 the consonant loop.  Each loop
\* returns n when i > j, and leaves by break, after which i is incremented.
RECURSIVE mloop(_, _, _, _, _)
mloop(b, j, i, n, ph) ==
    IF i > j THEN n
    ELSE IF ph = 0 THEN
        (IF ~consonant(b, i) THEN mloop(b, j, i + 1, n, 1)
                             ELSE mloop(b, j, i + 1, n, 0))
    ELSE IF ph = 1 THEN
        (IF consonant(b, i) THEN mloop(b, j, i + 1, n + 1, 2)
                            ELSE mloop(b, j, i + 1, n, 1))
    ELSE
        (IF ~consonant(b, i) THEN mloop(b, j, i + 1, n, 1)
                             ELSE mloop(b, j, i + 1, n, 2))

m(zz) == mloop(zz.b, zz.j, 0, 0, 0)

\* the positions m() passes to consonant: every i of 0..j
mscan(zz) == 0 .. zz.j

vowelinstem(zz) == \E i \in 0 .. zz.j : ~consonant(zz.b, i)

\* the positions vowelinstem() passes to consonant: 0 up to the first vowel
vscan(zz) == {i \in 0 .. zz.j : \A h \in 0 .. (i - 1) : consonant(zz.b, h)}

doublec(zz, j) ==
    IF 1 > j THEN FALSE
    ELSE IF at(zz.b, j) # at(zz.b, j - 1) THEN FALSE
    ELSE consonant(zz.b, j)

\* the index expressions of doublec(j), and its call of consonant(j)
doublecLog(zz, j) ==
    IF 1 > j THEN zz
    ELSE IF at(zz.b, j) # at(zz.b, j - 1) THEN rd(rd(zz, j), j - 1)
    ELSE see(rd(rd(zz, j), j - 1), {j})

\* cvc without the test of position i-2
cvcTwoLetters(zz, i) ==
    IF 2 > i \/ ~consonant(zz.b, i) \/ consonant(zz.b, i - 1)
    THEN FALSE
    ELSE at(zz.b, i) \notin {"w", "x", "y"}

cvc(zz, i) ==
    IF 2 > i \/ ~consonant(zz.b, i) \/ consonant(zz.b, i - 1)
             \/ ~consonant(zz.b, i - 2)
    THEN FALSE
    ELSE at(zz.b, i) \notin {"w", "x", "y"}

\* the positions cvc(i) passes to consonant, left to right with short
\* circuit, and its index expression z.b[i]
cvcLog(zz, i) ==
    IF 2 > i THEN zz
    ELSE IF ~consonant(zz.b, i) THEN see(zz, {i})
    ELSE IF consonant(zz.b, i - 1) THEN see(zz, {i, i - 1})
    ELSE IF ~consonant(zz.b, i - 2) THEN see(zz, {i, i - 1, i - 2})
    ELSE rd(see(zz, {i, i - 1, i - 2}), i)

----------------------------------------------------------------------------
(* Suffix match and replace.                                               *)

\* the result of ends(s)
ends(zz, s) ==
    IF Len(s) > zz.k THEN FALSE
    ELSE HasSuffix(upto(zz.b, zz.k + 1), s)

\* ends with z.j = z.k - length + 1
endsJOffByOne(zz, s) == [zz EXCEPT !.j = zz.k - Len(s) + 1]

\* the side effect of a successful ends(s)
endsJ(zz, s) == [zz EXCEPT !.j = zz.k - Len(s)]

\* setto with z.k = j + len(s) + 1
settoOffByOne(zz, s) ==
    LET j == zz.j
        nb == [p \in 1 .. Len(zz.b) |->
                 IF p - 1 > j /\ p - 1 <= j + Len(s) THEN s[p - 1 - j]
                 ELSE zz.b[p]]
    IN  [zz EXCEPT !.b = nb,
                   !.k = j + Len(s) + 1,
                   !.ks = @ \cup {j + Len(s) + 1},
                   !.sl = @ \cup {j + 1},
                   !.wr = @ \cup ((j + 1) .. (j + Len(s)))]

\* copy(z.b[j+1:], s) copies min(len(z.b) - (j+1), len(s)) bytes
setto(zz, s) ==
    LET j == zz.j
        nb == [p \in 1 .. Len(zz.b) |->
                 IF p - 1 > j /\ p - 1 <= j + Len(s) THEN s[p - 1 - j]
                 ELSE zz.b[p]]
    IN  [zz EXCEPT !.b = nb,
                   !.k = j + Len(s),
                   !.ks = @ \cup {j + Len(s)},
                   !.sl = @ \cup {j + 1},
                   !.wr = @ \cup ((j + 1) .. (j + Len(s)))]

r(zz, s) ==
    LET z1 == see(zz, mscan(zz))
    IN  IF 0 < m(z1) THEN setto(z1, s) ELSE z1

\* case z.ends(s): z.r(t)
rule(zz, s, t) == r(endsJ(zz, s), t)

----------------------------------------------------------------------------
(* step1ab: plurals, then -eed, -ed and -ing.                              *)

\* lines 303-314: if 's' == z.b[z.k] { switch ... }
step1ab_plural(z0) ==
    LET z1 == rd(z0, z0.k)
    IN  IF at(z1.b, z1.k) # "s" THEN z1
        ELSE IF ends(z1, _SSES) THEN
            (LET y == endsJ(z1, _SSES) IN setk(y, y.k - 2))
        ELSE IF ends(z1, _IES) THEN setto(endsJ(z1, _IES), _I)
        ELSE
            (LET y == rd(z1, z1.k - 1)
             IN  IF at(y.b, y.k - 1) # "s" THEN setk(y, y.k - 1) ELSE y)

\* the switch with 'z' missing from the doubled letters that are kept
step1ab_fixNoZ(y) ==
    IF ends(y, _AT) THEN setto(endsJ(y, _AT), _ATE)
    ELSE IF ends(y, _BL) THEN setto(endsJ(y, _BL), _BLE)
    ELSE IF ends(y, _IZ) THEN setto(endsJ(y, _IZ), _IZE)
    ELSE IF doublec(y, y.k) THEN
        (LET a == setk(doublecLog(y, y.k), y.k - 1)
             c == rd(a, a.k)
         IN  IF at(c.b, c.k) \in {"l", "s"} THEN setk(c, c.k + 1) ELSE c)
    ELSE
        (LET a == doublecLog(y, y.k)
             c == see(a, mscan(a))
         IN  IF 1 = m(c)
             THEN (LET d == cvcLog(c, c.k)
                   IN  IF cvc(d, d.k) THEN setto(d, _E) ELSE d)
             ELSE c)

\* lines 321-342: the switch entered after z.k = z.j
step1ab_fix(y) ==
    IF ends(y, _AT) THEN setto(endsJ(y, _AT), _ATE)
    ELSE IF ends(y, _BL) THEN setto(endsJ(y, _BL), _BLE)
    ELSE IF ends(y, _IZ) THEN setto(endsJ(y, _IZ), _IZE)
    ELSE IF doublec(y, y.k) THEN
        (LET a == setk(doublecLog(y, y.k), y.k - 1)
             c == rd(a, a.k)
         IN  IF at(c.b, c.k) \in {"l", "s", "z"} THEN setk(c, c.k + 1) ELSE c)
    ELSE
        (LET a == doublecLog(y, y.k)
             c == see(a, mscan(a))
         IN  IF 1 = m(c)
             THEN (LET d == cvcLog(c, c.k)
                   IN  IF cvc(d, d.k) THEN setto(d, _E) ELSE d)
             ELSE c)

\* lines 315-343
step1ab_verb(z0) ==
    IF ends(z0, _EED) THEN
        (LET y0 == endsJ(z0, _EED)
             y == see(y0, mscan(y0))
         IN  IF 0 < m(y) THEN setk(y, y.k - 1) ELSE y)
    ELSE IF ends(z0, _ED) \/ ends(z0, _ING) THEN
        (LET y0 == IF ends(z0, _ED) THEN endsJ(z0, _ED) ELSE endsJ(z0, _ING)
             y == see(y0, vscan(y0))
         IN  IF vowelinstem(y) THEN step1ab_fix(setk(y, y.j)) ELSE y)
    ELSE z0

step1ab(z0) == step1ab_verb(step1ab_plural(z0))

----------------------------------------------------------------------------
(* step1c: terminal y to i.                                                *)

step1c(z0) ==
    IF ends(z0, _Y) THEN
        (LET y0 == endsJ(z0, _Y)
             y == see(y0, vscan(y0))
         IN  IF vowelinstem(y)
             THEN [rd(y, y.k) EXCEPT !.b = [y.b EXCEPT ![y.k + 1] = "i"]]
             ELSE y)
    ELSE z0

----------------------------------------------------------------------------
(* step2: double suffixes to single ones.                                  *)

step2_a(zz) ==
    IF ends(zz, _ATIONAL) THEN rule(zz, _ATIONAL, _ATE)
    ELSE IF ends(zz, _TIONAL) THEN rule(zz, _TIONAL, _TION)
    ELSE zz

step2_c(zz) ==
    IF ends(zz, _ENCI) THEN rule(zz, _ENCI, _ENCE)
    ELSE IF ends(zz, _ANCI) THEN rule(zz, _ANCI, _ANCE)
    ELSE zz

step2_e(zz) ==
    IF ends(zz, _IZER) THEN rule(zz, _IZER, _IZE) ELSE zz

step2_l(zz) ==
    IF ends(zz, _BLI) THEN rule(zz, _BLI, _BLE)
    ELSE IF ends(zz, _ALLI) THEN rule(zz, _ALLI, _AL)
    ELSE IF ends(zz, _ENTLI) THEN rule(zz, _ENTLI, _ENT)
    ELSE IF ends(zz, _ELI) THEN rule(zz, _ELI, _E)
    ELSE IF ends(zz, _OUSLI) THEN rule(zz, _OUSLI, _OUS)
    ELSE zz

step2_o(zz) ==
    IF ends(zz, _IZATION) THEN rule(zz, _IZATION, _IZE)
    ELSE IF ends(zz, _ATION) THEN rule(zz, _ATION, _ATE)
    ELSE IF ends(zz, _ATOR) THEN rule(zz, _ATOR, _ATE)
    ELSE zz

step2_s(zz) ==
    IF ends(zz, _ALISM) THEN rule(zz, _ALISM, _AL)
    ELSE IF ends(zz, _IVENESS) THEN rule(zz, _IVENESS, _IVE)
    ELSE IF ends(zz, _FULNESS) THEN rule(zz, _FULNESS, _FUL)
    ELSE IF ends(zz, _OUSNESS) THEN rule(zz, _OUSNESS, _OUS)
    ELSE zz

step2_t(zz) ==
    IF ends(zz, _ALITI) THEN rule(zz, _ALITI, _AL)
    ELSE IF ends(zz, _IVITI) THEN rule(zz, _IVITI, _IVE)
    ELSE IF ends(zz, _BILITI) THEN rule(zz, _BILITI, _BLE)
    ELSE zz

step2_g(zz) ==
    IF ends(zz, _LOGI) THEN rule(zz, _LOGI, _LOG) ELSE zz

\* switch z.b[z.k-1]
step2_switch(z0) ==
    LET zz == rd(z0, z0.k - 1)
        ch == at(zz.b, zz.k - 1)
    IN  IF ch = "a" THEN step2_a(zz)
        ELSE IF ch = "c" THEN step2_c(zz)
        ELSE IF ch = "e" THEN step2_e(zz)
        ELSE IF ch = "l" THEN step2_l(zz)
        ELSE IF ch = "o" THEN step2_o(zz)
        ELSE IF ch = "s" THEN step2_s(zz)
        ELSE IF ch = "t" THEN step2_t(zz)
        ELSE IF ch = "g" THEN step2_g(zz)
        ELSE zz

\* step2 without the test z.k == 0
step2NoGuard(z0) == step2_switch(z0)

step2(z0) == IF z0.k = 0 THEN z0 ELSE step2_switch(z0)

----------------------------------------------------------------------------
(* step3: -ic-, -full, -ness etc.                                          *)

step3_e(zz) ==
    IF ends(zz, _ICATE) THEN rule(zz, _ICATE, _IC)
    ELSE IF ends(zz, _ATIVE) THEN rule(zz, _ATIVE, __BLANK)
    ELSE IF ends(zz, _ALIZE) THEN rule(zz, _ALIZE, _AL)
    ELSE zz

step3_i(zz) ==
    IF ends(zz, _ICITI) THEN rule(zz, _ICITI, _IC) ELSE zz

step3_l(zz) ==
    IF ends(zz, _ICAL) THEN rule(zz, _ICAL, _IC)
    ELSE IF ends(zz, _FUL) THEN rule(zz, _FUL, __BLANK)
    ELSE zz

step3_s(zz) ==
    IF ends(zz, _NESS) THEN rule(zz, _NESS, __BLANK) ELSE zz

\* step3 with the switch of step2 and step4, on z.b[z.k-1]
step3OnLetterBefore(z0) ==
    LET zz == rd(z0, z0.k - 1)
        ch == at(zz.b, zz.k - 1)
    IN  IF ch = "e" THEN step3_e(zz)
        ELSE IF ch = "i" THEN step3_i(zz)
        ELSE IF ch = "l" THEN step3_l(zz)
        ELSE IF ch = "s" THEN step3_s(zz)
        ELSE zz

\* switch z.b[z.k]
step3(z0) ==
    LET zz == rd(z0, z0.k)
        ch == at(zz.b, zz.k)
    IN  IF ch = "e" THEN step3_e(zz)
        ELSE IF ch = "i" THEN step3_i(zz)
        ELSE IF ch = "l" THEN step3_l(zz)
        ELSE IF ch = "s" THEN step3_s(zz)
        ELSE zz

----------------------------------------------------------------------------
(* step4: -ant, -ence etc. in context <c>vcvc<v>.                          *)

step4_update(zz) ==
    LET y == see(zz, mscan(zz))
    IN  IF 1 < m(y) THEN setk(y, y.j) ELSE y

step4_a(zz) ==
    IF ends(zz, _AL) THEN step4_update(endsJ(zz, _AL)) ELSE zz

\* step4_c without the suffix -ance
step4_cEnceOnly(zz) ==
    IF ends(zz, _ENCE) THEN step4_update(endsJ(zz, _ENCE)) ELSE zz

step4_c(zz) ==
    IF ends(zz, _ANCE) THEN step4_update(endsJ(zz, _ANCE))
    ELSE IF ends(zz, _ENCE) THEN step4_update(endsJ(zz, _ENCE))
    ELSE zz

step4_e(zz) ==
    IF ends(zz, _ER) THEN step4_update(endsJ(zz, _ER)) ELSE zz

step4_i(zz) ==
    IF ends(zz, _IC) THEN step4_update(endsJ(zz, _IC)) ELSE zz

step4_l(zz) ==
    IF ends(zz, _ABLE) THEN step4_update(endsJ(zz, _ABLE))
    ELSE IF ends(zz, _IBLE) THEN step4_update(endsJ(zz, _IBLE))
    ELSE zz

step4_n(zz) ==
    IF ends(zz, _ANT) THEN step4_update(endsJ(zz, _ANT))
    ELSE IF ends(zz, _EMENT) THEN step4_update(endsJ(zz, _EMENT))
    ELSE IF ends(zz, _MENT) THEN step4_update(endsJ(zz, _MENT))
    ELSE IF ends(zz, _ENT) THEN step4_update(endsJ(zz, _ENT))
    ELSE zz

\* two if statements in sequence: the second runs on the result of the first
step4_o(zz) ==
    LET z1 == IF ends(zz, _OU) THEN step4_update(endsJ(zz, _OU)) ELSE zz
    IN  IF ends(z1, _ION) THEN
            (LET y0 == endsJ(z1, _ION)
                 y == rd(y0, y0.j)
             IN  IF at(y.b, y.j) = "s" \/ at(y.b, y.j) = "t"
                 THEN step4_update(y) ELSE y)
        ELSE z1

step4_s(zz) ==
    IF ends(zz, _ISM) THEN step4_update(endsJ(zz, _ISM)) ELSE zz

step4_t(zz) ==
    IF ends(zz, _ATE) THEN step4_update(endsJ(zz, _ATE))
    ELSE IF ends(zz, _ITI) THEN step4_update(endsJ(zz, _ITI))
    ELSE zz

step4_u(zz) ==
    IF ends(zz, _OUS) THEN step4_update(endsJ(zz, _OUS)) ELSE zz

step4_v(zz) ==
    IF ends(zz, _IVE) THEN step4_update(endsJ(zz, _IVE)) ELSE zz

step4_z(zz) ==
    IF ends(zz, _IZE) THEN step4_update(endsJ(zz, _IZE)) ELSE zz

\* switch z.b[z.k-1]
step4_switch(z0) ==
    LET zz == rd(z0, z0.k - 1)
        ch == at(zz.b, zz.k - 1)
    IN  IF ch = "a" THEN step4_a(zz)
        ELSE IF ch = "c" THEN step4_c(zz)
        ELSE IF ch = "e" THEN step4_e(zz)
        ELSE IF ch = "i" THEN step4_i(zz)
        ELSE IF ch = "l" THEN step4_l(zz)
        ELSE IF ch = "n" THEN step4_n(zz)
        ELSE IF ch = "o" THEN step4_o(zz)
        ELSE IF ch = "s" THEN step4_s(zz)
        ELSE IF ch = "t" THEN step4_t(zz)
        ELSE IF ch = "u" THEN step4_u(zz)
        ELSE IF ch = "v" THEN step4_v(zz)
        ELSE IF ch = "z" THEN step4_z(zz)
        ELSE zz

step4(z0) == IF z0.k = 0 THEN z0 ELSE step4_switch(z0)

----------------------------------------------------------------------------
(* step5: final -e, and -ll to -l.                                         *)

\* step5 with the test 1 == a && z.cvc(z.k-1)
step5_eKeepsCvc(z1) ==
    IF at(z1.b, z1.k) = "e" THEN
        (LET y == see(z1, mscan(z1))
             a == m(y)
         IN  IF 1 < a THEN setk(y, y.k - 1)
             ELSE IF 1 = a THEN
                 (LET d == cvcLog(y, y.k - 1)
                  IN  IF cvc(d, d.k - 1) THEN setk(d, d.k - 1) ELSE d)
             ELSE y)
    ELSE z1

\* lines 623-628
step5_e(z1) ==
    IF at(z1.b, z1.k) = "e" THEN
        (LET y == see(z1, mscan(z1))
             a == m(y)
         IN  IF 1 < a THEN setk(y, y.k - 1)
             ELSE IF 1 = a THEN
                 (LET d == cvcLog(y, y.k - 1)
                  IN  IF ~cvc(d, d.k - 1) THEN setk(d, d.k - 1) ELSE d)
             ELSE y)
    ELSE z1

\* the -ll rule with 0 < z.m() for 1 < z.m()
step5_lAnyMeasure(z2) ==
    LET z3 == rd(z2, z2.k)
    IN  IF at(z3.b, z3.k) = "l" THEN
            (LET d == doublecLog(z3, z3.k)
             IN  IF doublec(d, d.k) THEN
                     (LET e == see(d, mscan(d))
                      IN  IF 0 < m(e) THEN setk(e, e.k - 1) ELSE e)
                 ELSE d)
        ELSE z3

\* lines 629-631
step5_l(z2) ==
    LET z3 == rd(z2, z2.k)
    IN  IF at(z3.b, z3.k) = "l" THEN
            (LET d == doublecLog(z3, z3.k)
             IN  IF doublec(d, d.k) THEN
                     (LET e == see(d, mscan(d))
                      IN  IF 1 < m(e) THEN setk(e, e.k - 1) ELSE e)
                 ELSE d)
        ELSE z3

step5(z0) == step5_l(step5_e(rd([z0 EXCEPT !.j = z0.k], z0.k)))

----------------------------------------------------------------------------
(* stem, Stem and StemBytes.                                               *)

\* z.b = b; z.j = 0; z.k = len(b) - 1
stemInit(b) ==
    [b |-> b, j |-> 0, k |-> Len(b) - 1,
     idx |-> {}, sl |-> {}, wr |-> {}, ks |-> {}]

\* stem with the test z.k > 0
runsStepsFromTwo(z0) == z0.k > 0

\* if z.k > 1 { the six steps }
runsSteps(z0) == z0.k > 1

\* the six steps of stem, in order
stemSteps(z0) ==
    step5(Fresh(step4(Fresh(step3(Fresh(step2(Fresh(step1c(Fresh(
        step1ab(z0)))))))))))

\* the struct when stem(b) returns
stem(b) ==
    LET z0 == stemInit(b)
    IN  IF runsSteps(z0) THEN stemSteps(z0) ELSE z0

UPPER ==
    <<"A","B","C","D","E","F","G","H","I","J","K","L","M",
      "N","O","P","Q","R","S","T","U","V","W","X","Y","Z">>

LOWER ==
    <<"a","b","c","d","e","f","g","h","i","j","k","l","m",
      "n","o","p","q","r","s","t","u","v","w","x","y","z">>

\* one byte of strings.ToLower on an ASCII string
lower(ch) ==
    IF \E n \in 1 .. Len(UPPER) : UPPER[n] = ch
    THEN LOWER[CHOOSE n \in 1 .. Len(UPPER) : UPPER[n] = ch]
    ELSE ch

ToLower(w) == [p \in 1 .. Len(w) |-> lower(w[p])]

\* the value of an ASCII byte; "#" stands for any byte that is no letter
code(ch) ==
    IF \E n \in 1 .. Len(UPPER) : UPPER[n] = ch
    THEN 64 + CHOOSE n \in 1 .. Len(UPPER) : UPPER[n] = ch
    ELSE IF \E n \in 1 .. Len(LOWER) : LOWER[n] = ch
    THEN 96 + CHOOSE n \in 1 .. Len(LOWER) : LOWER[n] = ch
    ELSE IF ch = "-" THEN 45
    ELSE 35

\* the byte of a letter's value
chr(n) == IF n > 96 THEN LOWER[n - 96] ELSE UPPER[n - 64]

\* the loop body of StemBytes with b[i] < 'Z' for b[i] <= 'Z'
lowerByteBelowZ(ch) ==
    IF code(ch) >= 65 /\ code(ch) < 90 THEN chr(code(ch) + 32) ELSE ch

\* if b[i] >= 'A' && b[i] <= 'Z' { b[i] += 'a' - 'A' }
lowerByte(ch) ==
    IF code(ch) >= 65 /\ code(ch) <= 90 THEN chr(code(ch) + 32) ELSE ch

\* for i := 0; i < len(b); i++ { ... }: StemBytes lowercases b in place
lowerInPlace(b) == [p \in 1 .. Len(b) |-> lowerByte(b[p])]

\* the test of the result with bn > 0 for bn >= 0
resultPositive(zz) ==
    IF zz.k > 0 /\ zz.k < Len(zz.b)
    THEN [out |-> upto(zz.b, zz.k + 1), err |-> "nil"]
    ELSE [out |-> << >>, err |-> "ErrInvalidInput"]

\* if bn >= 0 && bn < len(z.b) { return z.b[:bn+1], nil }; return "", Err
result(zz) ==
    IF zz.k >= 0 /\ zz.k < Len(zz.b)
    THEN [out |-> upto(zz.b, zz.k + 1), err |-> "nil"]
    ELSE [out |-> << >>, err |-> "ErrInvalidInput"]

\* what Stem(w) returns when it runs alone
StemOf(w) ==
    IF w = << >> THEN [out |-> << >>, err |-> "nil"]
    ELSE result(stem(ToLower(w)))

----------------------------------------------------------------------------
(* Calls.  A call is one invocation of Stem or StemBytes by a goroutine.   *)

Calls == {1, 2}

\* one package-level stemmer used by every call
InstShared(c) == 1

\* var z stemmer: the stemmer a call works on is a local of that call
Inst(c) == c

Advance(c, zn, next) ==
    /\ z' = [z EXCEPT ![Inst(c)] = zn]
    /\ pc' = [pc EXCEPT ![c] = IF Faulted(zn) THEN "panic" ELSE next]
    /\ UNCHANGED <<api, word, out, err, round, prev, mrun>>

\* the entry of Stem / StemBytes up to the test z.k > 1 of stem
Enter(c) ==
    IF word[c] = << >>
    THEN /\ out' = [out EXCEPT ![c] = << >>]
         /\ err' = [err EXCEPT ![c] = "nil"]
         /\ pc' = [pc EXCEPT ![c] = "done"]
         /\ UNCHANGED <<z, api, word, round, prev, mrun>>
    ELSE /\ LET z0 == stemInit(IF api[c] = "StemBytes"
                                  THEN lowerInPlace(word[c])
                                  ELSE ToLower(word[c]))
            IN  /\ z' = [z EXCEPT ![Inst(c)] = z0]
                /\ pc' = [pc EXCEPT ![c] =
                             IF runsSteps(z0) THEN "step1ab" ELSE "return"]
         /\ UNCHANGED <<api, word, out, err, round, prev, mrun>>

CallStem(c) ==
    /\ pc[c] = "idle"
    /\ api[c] = "Stem"
    /\ Enter(c)

CallStemBytes(c) ==
    /\ pc[c] = "idle"
    /\ api[c] = "StemBytes"
    /\ Enter(c)

Step1ab(c) ==
    /\ pc[c] = "step1ab"
    /\ Advance(c, step1ab(Fresh(z[Inst(c)])), "step1c")

Step1c(c) ==
    /\ pc[c] = "step1c"
    /\ Advance(c, step1c(Fresh(z[Inst(c)])), "step2")

Step2(c) ==
    /\ pc[c] = "step2"
    /\ Advance(c, step2(Fresh(z[Inst(c)])), "step3")

Step3(c) ==
    /\ pc[c] = "step3"
    /\ Advance(c, step3(Fresh(z[Inst(c)])), "step4")

Step4(c) ==
    /\ pc[c] = "step4"
    /\ Advance(c, step4(Fresh(z[Inst(c)])), "step5")

Step5(c) ==
    /\ pc[c] = "step5"
    /\ Advance(c, step5(Fresh(z[Inst(c)])), "return")

Return(c) ==
    /\ pc[c] = "return"
    /\ out' = [out EXCEPT ![c] = result(z[Inst(c)]).out]
    /\ err' = [err EXCEPT ![c] = result(z[Inst(c)]).err]
    /\ pc' = [pc EXCEPT ![c] = "done"]
    /\ UNCHANGED <<z, api, word, round, prev, mrun>>

\* the caller stems the stem it got: Stem(Stem(w))
Restem(c) ==
    /\ pc[c] = "done"
    /\ round[c] = 1
    /\ err[c] = "nil"
    /\ prev' = [prev EXCEPT ![c] = [word |-> word[c], out |-> out[c]]]
    /\ word' = [word EXCEPT ![c] = out[c]]
    /\ round' = [round EXCEPT ![c] = 2]
    /\ pc' = [pc EXCEPT ![c] = "idle"]
    /\ UNCHANGED <<z, api, out, err, mrun>>

----------------------------------------------------------------------------
(* Inputs.                                                                 *)

\* "#" stands for an ASCII byte that is no letter
Sigma == {"a", "e", "i", "y", "s", "d", "l", "#"}

\* every word over Sigma of length 0 .. MaxLen
ShortWords == UNION {[1 .. n -> Sigma] : n \in 0 .. MaxLen}

StemSigma == {"a", "t"}

Stems == UNION {[1 .. n -> StemSigma] : n \in 1 .. MaxStem}

Suffixes == {SuffixTables[f] : f \in DOMAIN SuffixTables}

Endings == {<< >>, <<"s">>, <<"e","d">>, <<"i","n","g">>}

\* a stem, a suffix of the tables, an inflexion
BuiltWords == {s \o u \o e : s \in Stems, u \in Suffixes, e \in Endings}

\* the words of the documentation: src/stemmer.go:283-301, the README
Golden ==
    {
      <<"c","a","r","e","s","s","e","s">>, <<"p","o","n","i","e","s">>,
      <<"t","i","e","s">>, <<"c","a","r","e","s","s">>, <<"c","a","t","s">>,
      <<"f","e","e","d">>, <<"a","g","r","e","e","d">>,
      <<"p","l","a","s","t","e","r","e","d">>, <<"b","l","e","d">>,
      <<"m","o","t","o","r","i","n","g">>, <<"s","i","n","g">>,
      <<"c","o","n","f","l","a","t","e","d">>,
      <<"t","r","o","u","b","l","e","d">>, <<"s","i","z","e","d">>,
      <<"h","o","p","p","i","n","g">>, <<"t","a","n","n","e","d">>,
      <<"f","a","l","l","i","n","g">>, <<"h","i","s","s","i","n","g">>,
      <<"f","i","z","z","e","d">>, <<"f","a","i","l","i","n","g">>,
      <<"f","i","l","i","n","g">>, <<"h","a","p","p","y">>, <<"s","k","y">>,
      <<"r","e","l","a","t","i","o","n","a","l">>,
      <<"c","o","n","d","i","t","i","o","n","a","l">>,
      <<"r","a","t","i","o","n","a","l">>, <<"v","a","l","e","n","c","i">>,
      <<"h","e","s","i","t","a","n","c","i">>,
      <<"d","i","g","i","t","i","z","e","r">>,
      <<"r","u","n","n","i","n","g">>, <<"j","u","m","p","e","d">>,
      <<"e","a","s","i","l","y">> }

\* words with upper-case letters, and with a byte that is no letter
Mixed ==
    {
      <<"R","u","n","n","i","n","g">>, <<"P","O","N","I","E","S">>,
      <<"S","k","y">>, <<"a","S">>, <<"A","-","e","d">>,
      <<"Z","A","P","S">> }

\* words ending in both suffixes of the 'o' family of step4
StackedWords ==
    {s \o _ION \o _OU : s \in Stems}
        \cup {<<"r","e","l","a","t","i","o","n","o","u">>}

\* words ending in "ll" and in "lle"
LlWords == {s \o <<"l","l">> \o e : s \in Stems, e \in {<< >>, <<"e">>}}

\* every suffix of the tables is also a word on its own
Words ==
    ShortWords \cup BuiltWords \cup Suffixes \cup StackedWords
        \cup LlWords \cup Golden \cup Mixed

\* the words StemBytes is called on
BytesWords ==
    Golden \cup Mixed \cup BuiltWords \cup Suffixes
        \cup {w \in ShortWords : Len(w) < MaxLen}

ConcWords ==
    {
      <<"a","g","r","e","e","d">>, <<"p","o","n","i","e","s">>,
      <<"s","k","y">>, <<"a","s">>, <<"R","u","n","n","i","n","g">>,
      <<"r","e","l","a","t","i","o","n","a","l">> }

NoZ == stemInit(<< >>)

\* no call of m() is being traced
NoM == [at |-> "off", b |-> << >>, j |-> 0, i |-> 0, n |-> 0]

Init ==
    /\ z = [i \in Calls |-> NoZ]
    /\ pc = [c \in Calls |-> IF c = 1 THEN "idle" ELSE "off"]
    /\ \E w \in Words, a \in {"Stem", "StemBytes"} :
          /\ a = "StemBytes" => w \in BytesWords
          /\ word = [c \in Calls |-> IF c = 1 THEN w ELSE << >>]
          /\ api = [c \in Calls |-> a]
    /\ out = [c \in Calls |-> << >>]
    /\ err = [c \in Calls |-> "none"]
    /\ round = [c \in Calls |-> 1]
    /\ prev = [c \in Calls |-> [word |-> << >>, out |-> << >>]]
    /\ mrun = NoM

Next ==
    \E c \in Calls :
        \/ CallStem(c)
        \/ CallStemBytes(c)
        \/ Step1ab(c)
        \/ Step1c(c)
        \/ Step2(c)
        \/ Step3(c)
        \/ Step4(c)
        \/ Step5(c)
        \/ Return(c)
        \/ Restem(c)

Spec == Init /\ [][Next]_vars

\* two goroutines, each making one call on its own buffer
InitConc ==
    /\ z = [i \in Calls |-> NoZ]
    /\ pc = [c \in Calls |-> "idle"]
    /\ word \in [Calls -> ConcWords]
    /\ api \in [Calls -> {"Stem", "StemBytes"}]
    /\ out = [c \in Calls |-> << >>]
    /\ err = [c \in Calls |-> "none"]
    /\ round = [c \in Calls |-> 1]
    /\ prev = [c \in Calls |-> [word |-> << >>, out |-> << >>]]
    /\ mrun = NoM

NextConc ==
    \E c \in Calls :
        \/ CallStem(c)
        \/ CallStemBytes(c)
        \/ Step1ab(c)
        \/ Step1c(c)
        \/ Step2(c)
        \/ Step3(c)
        \/ Step4(c)
        \/ Step5(c)
        \/ Return(c)

SpecConc == InitConc /\ [][NextConc]_vars

----------------------------------------------------------------------------
(* m() one loop iteration at a time.  A program stems a word and then      *)
(* calls m() on a stemmer holding the lowercased word and some j.          *)

\* longest word of the input set of the traced m()
MaxM == 4

MSigma == {"e", "y", "s", "d"}

MWords == UNION {[1 .. n -> MSigma] : n \in 0 .. MaxM}

\* the words of the measure examples
Tr == <<"t","r">>
Trouble == <<"t","r","o","u","b","l","e">>
Troubles == <<"t","r","o","u","b","l","e","s">>
Private == <<"p","r","i","v","a","t","e">>
MExamples == {Tr, Trouble, Troubles, Private}

MLoops == {"loop1", "loop2", "loop3"}

\* var n, i int
MCall ==
    /\ mrun.at = "idle"
    /\ pc[1] = "done"
    /\ mrun' = [mrun EXCEPT !.at = "loop1", !.i = 0, !.n = 0]
    /\ UNCHANGED <<z, pc, api, word, out, err, round, prev>>

\* the first loop: skip the leading consonants
MLoop1 ==
    /\ mrun.at = "loop1"
    /\ mrun' = IF mrun.i > mrun.j
                  THEN [mrun EXCEPT !.at = "ret"]
               ELSE IF ~consonant(mrun.b, mrun.i)
                  THEN [mrun EXCEPT !.at = "loop2", !.i = mrun.i + 1]
               ELSE [mrun EXCEPT !.i = mrun.i + 1]
    /\ UNCHANGED <<z, pc, api, word, out, err, round, prev>>

\* the vowel loop that leaves n++ out
MLoop2NoCount ==
    /\ mrun.at = "loop2"
    /\ mrun' = IF mrun.i > mrun.j
                  THEN [mrun EXCEPT !.at = "ret"]
               ELSE IF consonant(mrun.b, mrun.i)
                  THEN [mrun EXCEPT !.at = "loop3", !.i = mrun.i + 1]
               ELSE [mrun EXCEPT !.i = mrun.i + 1]
    /\ UNCHANGED <<z, pc, api, word, out, err, round, prev>>

\* the vowel loop: a consonant ends the run and counts one
MLoop2 ==
    /\ mrun.at = "loop2"
    /\ mrun' = IF mrun.i > mrun.j
                  THEN [mrun EXCEPT !.at = "ret"]
               ELSE IF consonant(mrun.b, mrun.i)
                  THEN [mrun EXCEPT !.at = "loop3", !.i = mrun.i + 1,
                                    !.n = mrun.n + 1]
               ELSE [mrun EXCEPT !.i = mrun.i + 1]
    /\ UNCHANGED <<z, pc, api, word, out, err, round, prev>>

\* the consonant loop that forgets i++ on a consonant
MLoop3NoAdvance ==
    /\ mrun.at = "loop3"
    /\ mrun' = IF mrun.i > mrun.j
                  THEN [mrun EXCEPT !.at = "ret"]
               ELSE IF ~consonant(mrun.b, mrun.i)
                  THEN [mrun EXCEPT !.at = "loop2", !.i = mrun.i + 1]
               ELSE mrun
    /\ UNCHANGED <<z, pc, api, word, out, err, round, prev>>

\* the consonant loop: a vowel ends the run
MLoop3 ==
    /\ mrun.at = "loop3"
    /\ mrun' = IF mrun.i > mrun.j
                  THEN [mrun EXCEPT !.at = "ret"]
               ELSE IF ~consonant(mrun.b, mrun.i)
                  THEN [mrun EXCEPT !.at = "loop2", !.i = mrun.i + 1]
               ELSE [mrun EXCEPT !.i = mrun.i + 1]
    /\ UNCHANGED <<z, pc, api, word, out, err, round, prev>>

InitLive ==
    /\ z = [i \in Calls |-> NoZ]
    /\ pc = [c \in Calls |-> IF c = 1 THEN "idle" ELSE "off"]
    /\ \E w \in MWords \cup MExamples \cup Golden \cup Mixed,
          a \in {"Stem", "StemBytes"} :
          /\ word = [c \in Calls |-> IF c = 1 THEN w ELSE << >>]
          /\ api = [c \in Calls |-> a]
          /\ \E j \in -1 .. Len(w) + 1 :
                mrun = [at |-> "idle", b |-> ToLower(w), j |-> j,
                        i |-> 0, n |-> 0]
    /\ out = [c \in Calls |-> << >>]
    /\ err = [c \in Calls |-> "none"]
    /\ round = [c \in Calls |-> 1]
    /\ prev = [c \in Calls |-> [word |-> << >>, out |-> << >>]]

\* the steps of the call of Stem / StemBytes
CallNext ==
    \E c \in Calls :
        \/ CallStem(c)
        \/ CallStemBytes(c)
        \/ Step1ab(c)
        \/ Step1c(c)
        \/ Step2(c)
        \/ Step3(c)
        \/ Step4(c)
        \/ Step5(c)
        \/ Return(c)

\* the steps of the call of m()
MNext ==
    \/ MCall
    \/ MLoop1
    \/ MLoop2
    \/ MLoop3

NextLive ==
    \/ CallNext
    \/ MNext

\* a call has a step to take: the guards of the disjuncts of CallNext
CallRunning ==
    \E c \in Calls :
        pc[c] \in {"idle", "step1ab", "step1c", "step2", "step3", "step4",
                   "step5", "return"}

\* A sequential program takes its next step whenever it has one: weak
\* fairness of MNext and of CallNext.  The fairness of CallNext is written
\* out, []<>~ENABLED <<CallNext>>_vars \/ []<><<CallNext>>_vars, with
\* CallRunning for ENABLED <<CallNext>>_vars.
SpecLive ==
    /\ InitLive
    /\ [][NextLive]_vars
    /\ WF_vars(MNext)
    /\ ([]<>~CallRunning \/ []<><<CallNext>>_vars)

----------------------------------------------------------------------------
(* Properties.                                                             *)

StepPcs == {"step1ab", "step1c", "step2", "step3", "step4", "step5"}

\* the current word b[0..k] of a stemmer
cur(zz) == upto(zz.b, zz.k + 1)

\* no upper-case letter
IsLower(w) == ToLower(w) = w

\* C1: the end index k never increases across a step: after each of
\* step1ab, step1c, step2, step3, step4 and step5 the value of k is at most
\* its value before the step; and the stem returned is never longer than
\* the input word.
C1_KNeverIncreases ==
    /\ [][\A c \in Calls :
             pc[c] \in StepPcs => z'[Inst(c)].k <= z[Inst(c)].k]_vars
    /\ [](\A c \in Calls : pc[c] = "done" => Len(out[c]) <= Len(word[c]))

\* a step has shortened the word, and the call has returned the shorter stem
C1_Witness ==
    /\ pc[1] = "done"
    /\ round[1] = 1
    /\ z[1].k < Len(z[1].b) - 1
    /\ Len(out[1]) < Len(word[1])

\* C2: during a stem call on a non-empty buffer 0 <= k <= len(b)-1 holds
\* after initialization and after every assignment to k, and every setto
\* writes its whole replacement inside the original word.
C2_KAndWritesInBounds ==
    \A c \in Calls :
        pc[c] \in StepPcs \cup {"return", "panic"} =>
            LET zz == z[Inst(c)]
                last == Len(zz.b) - 1
            IN  /\ 0 <= zz.k /\ zz.k <= last
                /\ \A v \in zz.ks : 0 <= v /\ v <= last
                /\ \A p \in zz.wr : 0 <= p /\ p <= last

\* a step has called setto with a replacement that ends on the last byte of
\* the buffer, and has assigned k
C2_Witness ==
    /\ pc[1] \in StepPcs \cup {"return"}
    /\ (Len(z[1].b) - 1) \in z[1].wr
    /\ z[1].ks # {}

\* C3: no step indexes or slices the buffer outside 0 .. len(b)-1, for any
\* input of length >= 1; in particular not at index -1 when the word has
\* shrunk to a single byte (k = 0).
C3_NoOutOfRange ==
    \A c \in Calls :
        /\ pc[c] # "panic"
        /\ pc[c] \in StepPcs \cup {"return"} =>
              LET zz == z[Inst(c)]
              IN  /\ \A i \in zz.idx : 0 <= i /\ i < Len(zz.b)
                  /\ \A n \in zz.sl : 0 <= n /\ n <= Len(zz.b)

\* step2 has run on a word that step1ab shrank to one byte, without faulting
C3_Witness ==
    /\ pc[1] = "step3"
    /\ word[1] = <<"a", "e", "d">>
    /\ z[1].k = 0
    /\ z[1].idx = {}

\* C4: a lower-case word of length <= 2 is returned unchanged and none of
\* the six steps runs on it; the steps run exactly when the length is >= 3.
C4_ShortWordPassthrough ==
    /\ [][\A c \in Calls :
             (pc[c] = "idle" /\ pc'[c] # "idle") =>
                 (pc'[c] = "step1ab" <=> Len(word[c]) >= 3)]_vars
    /\ [](\A c \in Calls :
             /\ pc[c] \in StepPcs => Len(word[c]) >= 3
             /\ (pc[c] = "done" /\ Len(word[c]) <= 2 /\ IsLower(word[c]))
                    => (out[c] = word[c] /\ err[c] = "nil"))

\* the two-letter plural "as" has come back unchanged
C4_Witness ==
    /\ pc[1] = "done"
    /\ round[1] = 1
    /\ word[1] = <<"a", "s">>
    /\ out[1] = <<"a", "s">>

\* C5 as stated: for every lower-case word w, Stem(Stem(w)) = Stem(w).
C5_Idempotent ==
    \A c \in Calls :
        (pc[c] = "done" /\ round[c] = 2 /\ IsLower(prev[c].word))
            => out[c] = prev[c].out

\* C5 amended: stemming a stem never lengthens it, and leaves it unchanged
\* when it has at most two letters.
C5_RestemNeverLonger ==
    \A c \in Calls :
        (pc[c] = "done" /\ round[c] = 2 /\ IsLower(prev[c].word)) =>
            /\ err[c] = "nil"
            /\ Len(out[c]) <= Len(prev[c].out)
            /\ Len(prev[c].out) <= 2 => out[c] = prev[c].out

\* the second call has run its steps and has shortened the first stem
C5_Witness ==
    /\ pc[1] = "done"
    /\ round[1] = 2
    /\ IsLower(prev[1].word)
    /\ Len(prev[1].out) >= 3
    /\ Len(out[1]) < Len(prev[1].out)

\* the buffers on which a call is working or has worked
Buffers == {z[Inst(c)].b : c \in {d \in Calls : pc[d] \notin {"idle", "off"}}}

\* C6 as stated: 'y' at pos > 0 is a consonant iff the letter before it is
\* a consonant.
C6_YLikePrevious ==
    \A b \in Buffers : \A pos \in 1 .. Len(b) :
        at(b, pos) = "y" => (consonant(b, pos) <=> consonant(b, pos - 1))

\* C6 amended: 'y' is a consonant at pos 0, and at pos > 0 iff the letter at
\* pos-1 is a vowel; a, e, i, o, u are never consonants; every other byte is
\* a consonant; a pos >= len(b) is not a consonant; vowel is the negation.
C6_YOppositeOfPrevious ==
    \A b \in Buffers : \A pos \in 0 .. (Len(b) + 1) :
        /\ vowel(b, pos) <=> ~consonant(b, pos)
        /\ pos >= Len(b) => ~consonant(b, pos)
        /\ at(b, pos) \in {"a", "e", "i", "o", "u"} => ~consonant(b, pos)
        /\ (pos < Len(b) /\ at(b, pos) \notin {"a", "e", "i", "o", "u", "y"})
              => consonant(b, pos)
        /\ (at(b, pos) = "y" /\ pos = 0) => consonant(b, pos)
        /\ (at(b, pos) = "y" /\ pos > 0)
              => (consonant(b, pos) <=> ~consonant(b, pos - 1))

\* a buffer holds a 'y' after a consonant (a vowel), one after a vowel (a
\* consonant), and one after a vowel 'y'
C6_Witness ==
    \E b \in Buffers : \E p, q, t \in 1 .. Len(b) :
        /\ at(b, p) = "y" /\ consonant(b, p - 1) /\ ~consonant(b, p)
        /\ at(b, q) = "y" /\ ~consonant(b, q - 1) /\ consonant(b, q)
        /\ at(b, t) = "y" /\ at(b, t - 1) = "y" /\ ~consonant(b, t - 1)

Agreed == <<"a","g","r","e","e","d">>

\* C7 as stated: Stem("agreed") returns "agree".
C7_AgreedAgree ==
    \A c \in Calls :
        (pc[c] = "done" /\ round[c] = 1 /\ word[c] = Agreed)
            => out[c] = <<"a","g","r","e","e">>

\* C7 amended: Stem("agreed") returns "agre": step1ab leaves "agree", and
\* step5 drops its final e.
C7_AgreedAgre ==
    \A c \in Calls :
        (round[c] = 1 /\ word[c] = Agreed) =>
            /\ pc[c] \in {"step1c", "step2", "step3", "step4", "step5"}
                  => cur(z[Inst(c)]) = <<"a","g","r","e","e">>
            /\ pc[c] = "return" => cur(z[Inst(c)]) = <<"a","g","r","e">>
            /\ pc[c] = "done"
                  => (out[c] = <<"a","g","r","e">> /\ err[c] = "nil")

\* Stem("agreed") has returned
C7_Witness ==
    /\ pc[1] = "done"
    /\ round[1] = 1
    /\ word[1] = Agreed
    /\ api[1] = "Stem"

Hesitanci == <<"h","e","s","i","t","a","n","c","i">>

\* C8 as stated: Stem("hesitanci") returns "hesitanc".
C8_HesitanciHesitanc ==
    \A c \in Calls :
        (pc[c] = "done" /\ round[c] = 1 /\ word[c] = Hesitanci)
            => out[c] = <<"h","e","s","i","t","a","n","c">>

\* C8 amended: Stem("hesitanci") returns "hesit": step2 rewrites -anci to
\* -ance, and step4 strips -ance.
C8_HesitanciHesit ==
    \A c \in Calls :
        (round[c] = 1 /\ word[c] = Hesitanci) =>
            /\ pc[c] \in {"step3", "step4"}
                  => cur(z[Inst(c)]) = <<"h","e","s","i","t","a","n","c","e">>
            /\ pc[c] \in {"step5", "return"}
                  => cur(z[Inst(c)]) = <<"h","e","s","i","t">>
            /\ pc[c] = "done"
                  => (out[c] = <<"h","e","s","i","t">> /\ err[c] = "nil")

\* Stem("hesitanci") has returned
C8_Witness ==
    /\ pc[1] = "done"
    /\ round[1] = 1
    /\ word[1] = Hesitanci
    /\ api[1] = "Stem"

\* the documented pairs of C9: <<word, stem>>
GoldenPairs ==
    {
      <<<<"c","a","r","e","s","s","e","s">>,
        <<"c","a","r","e","s","s">>>>,
      <<<<"p","o","n","i","e","s">>,
        <<"p","o","n","i">>>>,
      <<<<"t","i","e","s">>,
        <<"t","i">>>>,
      <<<<"c","a","r","e","s","s">>,
        <<"c","a","r","e","s","s">>>>,
      <<<<"c","a","t","s">>,
        <<"c","a","t">>>>,
      <<<<"f","e","e","d">>,
        <<"f","e","e","d">>>>,
      <<<<"p","l","a","s","t","e","r","e","d">>,
        <<"p","l","a","s","t","e","r">>>>,
      <<<<"b","l","e","d">>,
        <<"b","l","e","d">>>>,
      <<<<"m","o","t","o","r","i","n","g">>,
        <<"m","o","t","o","r">>>>,
      <<<<"s","i","n","g">>,
        <<"s","i","n","g">>>>,
      <<<<"c","o","n","f","l","a","t","e","d">>,
        <<"c","o","n","f","l","a","t">>>>,
      <<<<"t","r","o","u","b","l","e","d">>,
        <<"t","r","o","u","b","l">>>>,
      <<<<"s","i","z","e","d">>,
        <<"s","i","z","e">>>>,
      <<<<"h","o","p","p","i","n","g">>,
        <<"h","o","p">>>>,
      <<<<"t","a","n","n","e","d">>,
        <<"t","a","n">>>>,
      <<<<"f","a","l","l","i","n","g">>,
        <<"f","a","l","l">>>>,
      <<<<"h","i","s","s","i","n","g">>,
        <<"h","i","s","s">>>>,
      <<<<"f","i","z","z","e","d">>,
        <<"f","i","z","z">>>>,
      <<<<"f","a","i","l","i","n","g">>,
        <<"f","a","i","l">>>>,
      <<<<"f","i","l","i","n","g">>,
        <<"f","i","l","e">>>>,
      <<<<"h","a","p","p","y">>,
        <<"h","a","p","p","i">>>>,
      <<<<"s","k","y">>,
        <<"s","k","y">>>>,
      <<<<"r","e","l","a","t","i","o","n","a","l">>,
        <<"r","e","l","a","t">>>>,
      <<<<"c","o","n","d","i","t","i","o","n","a","l">>,
        <<"c","o","n","d","i","t">>>>,
      <<<<"r","a","t","i","o","n","a","l">>,
        <<"r","a","t","i","o","n">>>>,
      <<<<"v","a","l","e","n","c","i">>,
        <<"v","a","l","e","n","c">>>>,
      <<<<"d","i","g","i","t","i","z","e","r">>,
        <<"d","i","g","i","t">>>>,
      <<<<"r","u","n","n","i","n","g">>,
        <<"r","u","n">>>>,
      <<<<"j","u","m","p","e","d">>,
        <<"j","u","m","p">>>>,
      <<<<"e","a","s","i","l","y">>,
        <<"e","a","s","i","l","i">>>> }

\* C9: Stem maps each documented example word to its documented stem.
C9_GoldenPairs ==
    \A c \in Calls : \A g \in GoldenPairs :
        (pc[c] = "done" /\ round[c] = 1 /\ word[c] = g[1])
            => (out[c] = g[2] /\ err[c] = "nil")

\* the calls on "digitizer" and on "filing" return the documented stems
C9_Witness ==
    /\ pc[1] = "done"
    /\ round[1] = 1
    /\ \/ word[1] = <<"d","i","g","i","t","i","z","e","r">>
          /\ out[1] = <<"d","i","g","i","t">>
       \/ word[1] = <<"f","i","l","i","n","g">>
          /\ out[1] = <<"f","i","l","e">>

\* C10: in any interleaving of concurrent calls on distinct buffers every
\* call returns what it returns when run alone, whatever the other call has
\* done to its own stemmer meanwhile, and no step faults.
C10_CallsIndependent ==
    \A c \in Calls :
        /\ pc[c] # "panic"
        /\ pc[c] = "done" =>
              (out[c] = StemOf(word[c]).out /\ err[c] = StemOf(word[c]).err)

\* two calls on different words are in flight at once, each having already
\* shortened its own word
C10_Witness ==
    /\ pc[1] = "step4"
    /\ pc[2] = "step2"
    /\ word[1] # word[2]
    /\ z[Inst(1)].k < Len(z[Inst(1)].b) - 1
    /\ z[Inst(2)].k < Len(z[Inst(2)].b) - 1
    /\ cur(z[Inst(1)]) # cur(z[Inst(2)])

\* the order of the positions of a call
PcRank(p) ==
    CASE p = "off" -> 0
      [] p = "idle" -> 0
      [] p = "step1ab" -> 1
      [] p = "step1c" -> 2
      [] p = "step2" -> 3
      [] p = "step3" -> 4
      [] p = "step4" -> 5
      [] p = "step5" -> 6
      [] p = "return" -> 7
      [] p = "done" -> 8
      [] p = "panic" -> 9

StepsForward ==
    \A c \in Calls : pc'[c] # pc[c] => PcRank(pc'[c]) > PcRank(pc[c])

IterationAdvances ==
    (mrun.at \in MLoops /\ mrun' # mrun) =>
        \/ mrun.i > mrun.j /\ mrun'.at = "ret" /\ mrun'.i = mrun.i
        \/ mrun.i <= mrun.j /\ mrun'.at \in MLoops /\ mrun'.i = mrun.i + 1

\* C11: every call of Stem / StemBytes reaches its return and every call
\* of m() returns, whatever the buffer and whatever j; a call never goes
\* back to a step, and every iteration of a loop of m() that does not
\* return adds one to i, returning exactly when i > j
C11_Terminates ==
    /\ \A c \in Calls : (pc[c] = "idle") ~> (pc[c] = "done")
    /\ (mrun.at = "idle") ~> (mrun.at = "ret")
    /\ [][StepsForward /\ IterationAdvances]_vars

C11_Witness ==
    /\ pc[1] = "done"
    /\ Len(out[1]) < Len(word[1])
    /\ mrun.at = "ret"
    /\ mrun.n >= 1
    /\ mrun.j >= Len(mrun.b)

C13_StemBytesAgrees ==
    \A c \in Calls :
        (pc[c] = "done" /\ api[c] = "StemBytes") =>
            /\ out[c] = StemOf(word[c]).out
            /\ err[c] = StemOf(word[c]).err
            /\ word[c] # << >> =>
                   /\ Len(z[Inst(c)].b) = Len(word[c])
                   /\ out[c] = upto(z[Inst(c)].b, Len(out[c]))

C13_Witness ==
    /\ pc[1] = "done"
    /\ api[1] = "StemBytes"
    /\ word[1] # ToLower(word[1])
    /\ Len(out[1]) < Len(word[1])
    /\ out[1] = StemOf(word[1]).out

\* C14: for the word b[0..k] a call holds between two steps and every
\* suffix s of the rule tables, ends(s) is true exactly when the word ends
\* with s, a suffix as long as the whole word included
C14_EndsIffSuffix ==
    \A c \in Calls :
        pc[c] \in StepPcs =>
            \A s \in Suffixes :
                ends(z[Inst(c)], s) <=> HasSuffix(cur(z[Inst(c)]), s)

\* the positions 1..j that hold a consonant right after a vowel
VCPositions(b, j) == {i \in 1 .. j : consonant(b, i) /\ vowel(b, i - 1)}

\* C15: for 0 <= j < len(b), m() returns the number of positions i in 1..j
\* where b[i] is a consonant and b[i-1] is a vowel; the steps' m computes
\* the same number
C15_MeasureCountsVC ==
    (mrun.at = "ret" /\ 0 <= mrun.j /\ mrun.j < Len(mrun.b)) =>
        /\ mrun.n = Cardinality(VCPositions(mrun.b, mrun.j))
        /\ mrun.n = m([b |-> mrun.b, j |-> mrun.j])

C15_Witness ==
    /\ mrun.at = "ret"
    /\ mrun.j = Len(mrun.b) - 1
    /\ mrun.n = 2
    /\ \E p \in 1 .. Len(mrun.b) : mrun.b[p] = "y"

\* m() has returned from a call on the word w with j at its last letter
MeasuredWhole(w) ==
    mrun.at = "ret" /\ mrun.b = w /\ mrun.j = Len(w) - 1

\* C16 as stated: with j at the last letter m() returns 0 for "tr", 1 for
\* "trouble", 1 for "troubles" and 2 for "private"
C16_MeasureExamples ==
    /\ MeasuredWhole(Tr) => mrun.n = 0
    /\ MeasuredWhole(Trouble) => mrun.n = 1
    /\ MeasuredWhole(Troubles) => mrun.n = 1
    /\ MeasuredWhole(Private) => mrun.n = 2

\* C16 amended: with j at the last letter m() returns 0 for "tr", 1 for
\* "trouble", 2 for "troubles" and 2 for "private"
C16_MeasureExamplesTroubles2 ==
    /\ MeasuredWhole(Tr) => mrun.n = 0
    /\ MeasuredWhole(Trouble) => mrun.n = 1
    /\ MeasuredWhole(Troubles) => mrun.n = 2
    /\ MeasuredWhole(Private) => mrun.n = 2

C16_Witness ==
    /\ MeasuredWhole(Troubles)
    /\ mrun.n = 2
    /\ mrun.i = 8

\* the word w without its last n bytes
drop(w, n) == SubSeq(w, 1, Len(w) - n)

\* the plural rule as C17 words it
PluralOf(w) ==
    IF w[Len(w)] # "s" THEN w
    ELSE IF HasSuffix(w, <<"s","s","e","s">>) THEN drop(w, 2)
    ELSE IF HasSuffix(w, <<"i","e","s">>) THEN drop(w, 2)
    ELSE IF HasSuffix(w, <<"s","s">>) THEN w
    ELSE drop(w, 1)

\* C17: the first sub-step of step1ab turns a final "sses" into "ss",
\* otherwise a final "ies" into "i", otherwise drops a final "s" that no
\* "s" precedes, and leaves a word without a final "s" as it is; this for
\* every word of three bytes or more, the words "ies" and "sses" included
C17_PluralStripping ==
    \A c \in Calls :
        pc[c] = "step1ab" =>
            cur(step1ab_plural(Fresh(z[Inst(c)]))) = PluralOf(cur(z[Inst(c)]))

\* the measure of the first n bytes of the word w
MeasureOfPrefix(w, n) == m([b |-> w, j |-> n - 1])

\* the word the verb-ending sub-step of step1ab starts from
AfterPlural(c) == step1ab_plural(Fresh(z[Inst(c)]))

\* C18: on a word ending in "eed" the verb-ending sub-step of step1ab drops
\* the last letter when the part before "eed" has measure > 0 and leaves
\* the word as it is when that measure is 0: the ed / ing rule is not tried
C18_EedRule ==
    \A c \in Calls :
        (pc[c] = "step1ab" /\ HasSuffix(cur(AfterPlural(c)), _EED)) =>
            LET w == cur(AfterPlural(c))
            IN  cur(step1ab_verb(AfterPlural(c))) =
                    IF MeasureOfPrefix(w, Len(w) - 3) > 0
                    THEN drop(w, 1) ELSE w

\* one of the first n bytes of w is a vowel
VowelInPrefix(w, n) == \E i \in 0 .. n - 1 : vowel(w, i)

\* the number of bytes the ed / ing rule removes from the word w: 2 for
\* "ed", 3 for "ing" when a vowel stands before it, 0 when nothing is
\* removed; a word ending in "eed" is the business of the eed rule
Removed(w) ==
    IF HasSuffix(w, _EED) THEN 0
    ELSE IF HasSuffix(w, _ED)
         THEN (IF VowelInPrefix(w, Len(w) - 2) THEN 2 ELSE 0)
    ELSE IF HasSuffix(w, _ING)
         THEN (IF VowelInPrefix(w, Len(w) - 3) THEN 3 ELSE 0)
    ELSE 0

\* the remainder ends in "at", "bl" or "iz"
EndsAtBlIz(w) == HasSuffix(w, _AT) \/ HasSuffix(w, _BL) \/ HasSuffix(w, _IZ)

\* C19: when step1ab removes a final "ed" or "ing" and what remains ends
\* in "at", "bl" or "iz", the result is the remainder with an "e" added,
\* also when the remainder is exactly "at" or "iz"
C19_AtBlIzGetE ==
    \A c \in Calls :
        pc[c] = "step1ab" =>
            LET w == cur(AfterPlural(c))
                rest == drop(w, Removed(w))
            IN  (Removed(w) > 0 /\ EndsAtBlIz(rest)) =>
                    cur(step1ab_verb(AfterPlural(c))) = rest \o <<"e">>

\* the word w ends in a doubled consonant
EndsDoubled(w) ==
    /\ Len(w) >= 2
    /\ w[Len(w)] = w[Len(w) - 1]
    /\ consonant(w, Len(w) - 1)

\* what C20 says step1ab makes of a remainder that does not end in "at",
\* "bl" or "iz"
FixOf(w) ==
    IF EndsDoubled(w)
    THEN (IF w[Len(w)] \in {"l", "s", "z"} THEN w ELSE drop(w, 1))
    ELSE IF MeasureOfPrefix(w, Len(w)) = 1
            /\ cvc([b |-> w, j |-> Len(w) - 1, k |-> Len(w) - 1], Len(w) - 1)
         THEN w \o <<"e">>
    ELSE w

\* C20: when step1ab removes a final "ed" or "ing" and what remains does
\* not end in "at", "bl" or "iz": a doubled final consonant loses one copy
\* unless it is l, s or z; otherwise a remainder of measure 1 that ends
\* consonant-vowel-consonant gets an "e"; otherwise the remainder stays
C20_DoubledOrCvc ==
    \A c \in Calls :
        pc[c] = "step1ab" =>
            LET w == cur(AfterPlural(c))
                rest == drop(w, Removed(w))
            IN  (Removed(w) > 0 /\ ~EndsAtBlIz(rest)) =>
                    cur(step1ab_verb(AfterPlural(c))) = FixOf(rest)

C20_Witness ==
    /\ pc[1] = "step1c"
    /\ round[1] = 1
    /\ LET w == ToLower(word[1])
           rest == drop(w, Removed(w))
       IN  /\ Removed(w) = 3
           /\ EndsDoubled(rest)
           /\ rest[Len(rest)] \notin {"l", "s", "z"}
           /\ cur(z[1]) = drop(rest, 1)

\* the rules <<suffix, replacement>> of the family step2 dispatches to on
\* the letter ch, in the order of the source
Step2Family(ch) ==
    CASE ch = "a" -> << <<_ATIONAL, _ATE>>, <<_TIONAL, _TION>> >>
      [] ch = "c" -> << <<_ENCI, _ENCE>>, <<_ANCI, _ANCE>> >>
      [] ch = "e" -> << <<_IZER, _IZE>> >>
      [] ch = "l" -> << <<_BLI, _BLE>>, <<_ALLI, _AL>>, <<_ENTLI, _ENT>>,
                        <<_ELI, _E>>, <<_OUSLI, _OUS>> >>
      [] ch = "o" -> << <<_IZATION, _IZE>>, <<_ATION, _ATE>>,
                        <<_ATOR, _ATE>> >>
      [] ch = "s" -> << <<_ALISM, _AL>>, <<_IVENESS, _IVE>>,
                        <<_FULNESS, _FUL>>, <<_OUSNESS, _OUS>> >>
      [] ch = "t" -> << <<_ALITI, _AL>>, <<_IVITI, _IVE>>,
                        <<_BILITI, _BLE>> >>
      [] ch = "g" -> << <<_LOGI, _LOG>> >>
      [] OTHER -> << >>

\* the rules of the family fam whose suffix the word w ends with
Matching(fam, w) == {i \in 1 .. Len(fam) : HasSuffix(w, fam[i][1])}

\* the smallest number of a set of numbers that is not empty
Least(S) == CHOOSE i \in S : \A n \in S : i <= n

\* the word the first matching rule of fam makes of w: the part before
\* the suffix with the replacement when that part has measure > 0, else w
FirstMatchOf(fam, w) ==
    IF Matching(fam, w) = {} THEN w
    ELSE LET rl == fam[Least(Matching(fam, w))]
             stemLen == Len(w) - Len(rl[1])
         IN  IF MeasureOfPrefix(w, stemLen) > 0
             THEN drop(w, Len(rl[1])) \o rl[2]
             ELSE w

\* what C21 says step2 makes of the word w
Step2Of(w) ==
    IF Len(w) < 2 THEN w
    ELSE FirstMatchOf(Step2Family(w[Len(w) - 1]), w)

\* C21: step2 applies at most one rule, the first of the dispatched family
\* whose suffix the word ends with; when the measure guard of that rule
\* fails the word is left as it is and no later rule of the family is tried
C21_Step2FirstMatch ==
    \A c \in Calls :
        pc[c] = "step2" =>
            cur(step2(Fresh(z[Inst(c)]))) = Step2Of(cur(z[Inst(c)]))

\* the suffixes step4 removes
Step4Suffixes ==
    {_AL, _ANCE, _ENCE, _ER, _IC, _ABLE, _IBLE, _ANT, _EMENT, _MENT, _ENT,
     _OU, _ION, _ISM, _ATE, _ITI, _OUS, _IVE, _IZE}

\* the word v is the word w without one suffix of step4, or w itself
AtMostOneSuffixOff(w, v) ==
    \/ v = w
    \/ \E s \in Step4Suffixes : HasSuffix(w, s) /\ v = drop(w, Len(s))

\* C22: one call of step4 removes at most one suffix from the word, also
\* in the 'o' family with its two rules "ou" and "ion"
C22_Step4OneRule ==
    \A c \in Calls :
        pc[c] = "step4" =>
            AtMostOneSuffixOff(cur(z[Inst(c)]), cur(step4(Fresh(z[Inst(c)]))))

\* the measure of the whole word w
MeasureOfWord(w) == MeasureOfPrefix(w, Len(w))

\* the final -e rule as C23 words it
FinalEOf(w) ==
    IF w[Len(w)] # "e" THEN w
    ELSE IF MeasureOfWord(w) > 1 THEN drop(w, 1)
    ELSE IF MeasureOfWord(w) = 1
            /\ ~cvc([b |-> w, j |-> Len(w) - 1, k |-> Len(w) - 1], Len(w) - 2)
         THEN drop(w, 1)
    ELSE w

\* the -ll rule as C23 words it
FinalLOf(w) ==
    IF w[Len(w)] = "l" /\ EndsDoubled(w) /\ MeasureOfWord(w) > 1
    THEN drop(w, 1) ELSE w

\* the stemmer between the two rules of step5
AfterFinalE(c) == step5_e(rd([z[Inst(c)] EXCEPT !.j = z[Inst(c)].k],
                             z[Inst(c)].k))

\* C23: step5 drops a final "e" exactly when the measure a of the whole
\* word is > 1, or is 1 and cvc fails before the "e"; then it drops one
\* "l" of a final "ll" when the measure of the word it now has is > 1; the
\* measure m() computes for the "ll" test, with j left on a dropped "e",
\* is the measure of the shortened word
C23_Step5 ==
    \A c \in Calls :
        pc[c] = "step5" =>
            LET w == cur(z[Inst(c)])
                y == AfterFinalE(c)
            IN  /\ cur(y) = FinalEOf(w)
                /\ cur(step5(Fresh(z[Inst(c)]))) = FinalLOf(FinalEOf(w))
                /\ y.k < z[Inst(c)].k =>
                       /\ y.j = y.k + 1
                       /\ m(y) = MeasureOfWord(cur(y))

C23_Witness ==
    /\ pc[1] = "return"
    /\ round[1] = 1
    /\ HasSuffix(word[1], <<"l","l","e">>)
    /\ cur(z[1]) = drop(word[1], 2)
    /\ z[1].j = z[1].k + 2

\* the suffixes of each family of step2, step3 and step4, by the letter
\* the step's switch dispatches on
Step2Rules ==
    [ a |-> {_ATIONAL, _TIONAL},
      c |-> {_ENCI, _ANCI},
      e |-> {_IZER},
      l |-> {_BLI, _ALLI, _ENTLI, _ELI, _OUSLI},
      o |-> {_IZATION, _ATION, _ATOR},
      s |-> {_ALISM, _IVENESS, _FULNESS, _OUSNESS},
      t |-> {_ALITI, _IVITI, _BILITI},
      g |-> {_LOGI} ]

Step3Rules ==
    [ e |-> {_ICATE, _ATIVE, _ALIZE},
      i |-> {_ICITI},
      l |-> {_ICAL, _FUL},
      s |-> {_NESS} ]

Step4Rules ==
    [ a |-> {_AL},
      c |-> {_ANCE, _ENCE},
      e |-> {_ER},
      i |-> {_IC},
      l |-> {_ABLE, _IBLE},
      n |-> {_ANT, _EMENT, _MENT, _ENT},
      o |-> {_OU, _ION},
      s |-> {_ISM},
      t |-> {_ATE, _ITI},
      u |-> {_OUS},
      v |-> {_IVE},
      z |-> {_IZE} ]

\* ends is true for one of the suffixes of S
EndsAny(zz, S) == \E s \in S : ends(zz, s)

\* the steps without their switch: the family one of whose suffixes
\* matches is run
step2NoSwitch(zz) ==
    IF EndsAny(zz, Step2Rules.a) THEN step2_a(zz)
    ELSE IF EndsAny(zz, Step2Rules.c) THEN step2_c(zz)
    ELSE IF EndsAny(zz, Step2Rules.e) THEN step2_e(zz)
    ELSE IF EndsAny(zz, Step2Rules.l) THEN step2_l(zz)
    ELSE IF EndsAny(zz, Step2Rules.o) THEN step2_o(zz)
    ELSE IF EndsAny(zz, Step2Rules.s) THEN step2_s(zz)
    ELSE IF EndsAny(zz, Step2Rules.t) THEN step2_t(zz)
    ELSE IF EndsAny(zz, Step2Rules.g) THEN step2_g(zz)
    ELSE zz

step3NoSwitch(zz) ==
    IF EndsAny(zz, Step3Rules.e) THEN step3_e(zz)
    ELSE IF EndsAny(zz, Step3Rules.i) THEN step3_i(zz)
    ELSE IF EndsAny(zz, Step3Rules.l) THEN step3_l(zz)
    ELSE IF EndsAny(zz, Step3Rules.s) THEN step3_s(zz)
    ELSE zz

step4NoSwitch(zz) ==
    IF EndsAny(zz, Step4Rules.a) THEN step4_a(zz)
    ELSE IF EndsAny(zz, Step4Rules.c) THEN step4_c(zz)
    ELSE IF EndsAny(zz, Step4Rules.e) THEN step4_e(zz)
    ELSE IF EndsAny(zz, Step4Rules.i) THEN step4_i(zz)
    ELSE IF EndsAny(zz, Step4Rules.l) THEN step4_l(zz)
    ELSE IF EndsAny(zz, Step4Rules.n) THEN step4_n(zz)
    ELSE IF EndsAny(zz, Step4Rules.o) THEN step4_o(zz)
    ELSE IF EndsAny(zz, Step4Rules.s) THEN step4_s(zz)
    ELSE IF EndsAny(zz, Step4Rules.t) THEN step4_t(zz)
    ELSE IF EndsAny(zz, Step4Rules.u) THEN step4_u(zz)
    ELSE IF EndsAny(zz, Step4Rules.v) THEN step4_v(zz)
    ELSE IF EndsAny(zz, Step4Rules.z) THEN step4_z(zz)
    ELSE zz

\* every rule of the table whose suffix matches is in the family of the
\* letter ch
Selects(zz, rules, ch) ==
    \A f \in DOMAIN rules : EndsAny(zz, rules[f]) => ch = f

\* the two stemmers hold the same word and the same j
SameWord(x, y) == cur(x) = cur(y) /\ x.k = y.k /\ x.j = y.j /\ x.b = y.b

\* C24: whenever ends is true for the suffix of a rule of step2, step3 or
\* step4, the letter the step dispatches on (b[k-1], b[k], b[k-1]) is the
\* letter of the family of that rule, and the step gives what the step
\* without the switch gives
C24_DispatchIsFilter ==
    \A c \in Calls :
        LET zz == Fresh(z[Inst(c)])
        IN  /\ pc[c] = "step2" =>
                   /\ Selects(zz, Step2Rules, at(zz.b, zz.k - 1))
                   /\ SameWord(step2(zz), step2NoSwitch(zz))
            /\ pc[c] = "step3" =>
                   /\ Selects(zz, Step3Rules, at(zz.b, zz.k))
                   /\ SameWord(step3(zz), step3NoSwitch(zz))
            /\ pc[c] = "step4" =>
                   /\ Selects(zz, Step4Rules, at(zz.b, zz.k - 1))
                   /\ SameWord(step4(zz), step4NoSwitch(zz))

C24_Witness ==
    /\ pc[1] = "step3"
    /\ ends(z[1], _ALIZE)
    /\ at(z[1].b, z[1].k) = "e"
    /\ step3(Fresh(z[1])).k < z[1].k
    /\ z[1].k < Len(z[1].b) - 1

====
